---- MODULE Spec2Model ----
(***************************************************************************)
(* Model of tiger_mcp_server.py: the MCP tools that run the ck3-tiger      *)
(* validator as a subprocess and re-shape its output.                      *)
(*                                                                         *)
(* Python values are tagged records (py = "None" | "str" | "int" | "list"  *)
(* | "dict"); a dict carries a function from its keys to values, so an     *)
(* absent key is a key outside the function's domain.  An evaluation that  *)
(* can raise yields [ok |-> TRUE, v |-> value] or [ok |-> FALSE, exc |->   *)
(* [type, msg]].  The tools' return values, being Python dicts with string *)
(* keys, are TLA+ records whose domain is the set of keys present.         *)
(***************************************************************************)
EXTENDS Integers, Sequences, FiniteSets, TLC

VARIABLES
    files,    \* the paths that exist on the file system
    pc,       \* "idle": waiting for a tool call; "returned": a handler has returned
    call,     \* the tool call being answered: [tool, args]
    spawns,   \* the subprocess.run calls made during the call, in order
    result    \* the dict the handler returned

vars == <<files, pc, call, spawns, result>>

(***************************************************************************)
(* Bounds of the model.                                                    *)
(***************************************************************************)
MaxDiags == 2        \* longest diagnostic array the validator prints

(***************************************************************************)
(* Configuration and numeric constants of the program.                     *)
(***************************************************************************)
TIGER_PATH == "ck3-tiger"
MODS_BASE == "mods"
FullTimeout == 120
ConsolidateTimeout == 120
\* the syntax check run under the budget of the full validation
SyntaxTimeoutAsFull == FullTimeout
SyntaxTimeout == 60

(***************************************************************************)
(* Python values.                                                          *)
(***************************************************************************)
None == [py |-> "None"]
PyStr(s) == [py |-> "str", v |-> s]
PyInt(n) == [py |-> "int", v |-> n]
PyList(items) == [py |-> "list", v |-> items]
PyDict(f) == [py |-> "dict", v |-> f]

Ok(v) == [ok |-> TRUE, v |-> v]
Raise(type, msg) == [ok |-> FALSE, exc |-> [type |-> type, msg |-> msg]]

TypeName(x) ==
    CASE x.py = "None" -> "NoneType"
      [] x.py = "str" -> "str"
      [] x.py = "int" -> "int"
      [] x.py = "list" -> "list"
      [] x.py = "dict" -> "dict"

\* str(e) for an exception e
ExcStr(exc) == exc.msg

\* x.get(k, default): only a dict has the method
PyGet(x, k, default) ==
    IF x.py = "dict"
    THEN Ok(IF k \in DOMAIN x.v THEN x.v[k] ELSE default)
    ELSE Raise("AttributeError", "'" \o TypeName(x) \o "' object has no attribute 'get'")

\* the keys of a dict as a sequence of str values, in some fixed order
RECURSIVE KeySeq(_)
KeySeq(ks) ==
    IF ks = {} THEN <<>>
    ELSE LET k == CHOOSE k \in ks : TRUE IN <<PyStr(k)>> \o KeySeq(ks \ {k})

\* the characters of a str as a sequence of one-character str values
Chars(s) == [i \in 1..Len(s) |-> PyStr(SubSeq(s, i, i))]

\* iter(x): the sequence a for loop or a comprehension walks
PyIter(x) ==
    CASE x.py = "list" -> Ok(x.v)
      [] x.py = "dict" -> Ok(KeySeq(DOMAIN x.v))
      [] x.py = "str" -> Ok(Chars(x.v))
      [] OTHER -> Raise("TypeError", "'" \o TypeName(x) \o "' object is not iterable")

\* len(x)
PyLen(x) ==
    CASE x.py = "list" -> Ok(Len(x.v))
      [] x.py = "dict" -> Ok(Cardinality(DOMAIN x.v))
      [] x.py = "str" -> Ok(Len(x.v))
      [] OTHER -> Raise("TypeError", "object of type '" \o TypeName(x) \o "' has no len()")

(***************************************************************************)
(* Text captured from the child.  stderr is a string.  stdout is the empty *)
(* text, a non-empty text that is not JSON, or the non-empty JSON text of  *)
(* a document.                                                             *)
(***************************************************************************)
NoOutput == [kind |-> "empty"]
Garbage(raw) == [kind |-> "garbage", raw |-> raw]
JsonText(doc) == [kind |-> "json", doc |-> doc]

\* bool(text): a str is true iff it is non-empty
Truthy(text) == text.kind # "empty"

\* json.loads(text)
json_loads(text) ==
    IF text.kind = "json"
    THEN Ok(text.doc)
    ELSE Raise("JSONDecodeError", "Expecting value: line 1 column 1 (char 0)")

\* a check that never finds a path missing
os_path_exists_always(path) == TRUE

\* os.path.exists(path)
os_path_exists(path) == path \in files

\* os.path.join(MODS_BASE, f"{mod_name}.mod")
ModDescriptor(mod_name) == MODS_BASE \o "/" \o mod_name \o ".mod"

\* repr of the argument list, as it appears in str(TimeoutExpired)
RECURSIVE ReprArgs(_)
ReprArgs(command) ==
    IF command = <<>> THEN ""
    ELSE "'" \o Head(command) \o "'"
         \o (IF Len(command) > 1 THEN ", " ELSE "") \o ReprArgs(Tail(command))

(***************************************************************************)
(* subprocess.run(command, capture_output=True, text=True, timeout=t).     *)
(* b is what the environment does with the child: launch is "ok" or the    *)
(* OSError raised on spawning; runtime is the time the child needs; at     *)
(* runtime = t, exits_first tells whether the exit or the deadline is seen *)
(* first.  On the deadline the child is killed and TimeoutExpired raised.  *)
(***************************************************************************)
subprocess_run(command, timeout, b) ==
    LET ret == IF b.launch # "ok"
               THEN Raise(b.launch, "[Errno] " \o b.launch \o ": '" \o Head(command) \o "'")
               ELSE IF b.runtime > timeout \/ (b.runtime = timeout /\ ~b.exits_first)
               THEN Raise("TimeoutExpired",
                          "Command '[" \o ReprArgs(command) \o "]' timed out after "
                          \o ToString(timeout) \o " seconds")
               ELSE Ok([stdout |-> b.stdout, stderr |-> b.stderr])
        child == IF b.launch # "ok" THEN "not_started"
                 ELSE IF ret.ok THEN "exited" ELSE "killed"
    IN  [ret |-> ret,
         proc |-> [command |-> command, timeout |-> timeout, runtime |-> b.runtime,
                   child |-> child, ret |-> ret]]

(***************************************************************************)
(* _run_tiger_and_parse                                                    *)
(***************************************************************************)
\* the loop with the membership test lost: each diagnostic starts its bucket anew
RECURSIVE BucketLoopOverwrite(_, _, _)
BucketLoopOverwrite(items, i, errors_by_severity) ==
    IF i > Len(items) THEN Ok(errors_by_severity)
    ELSE LET error == items[i]
             severity == PyGet(error, "severity", PyStr("unknown"))
         IN  IF ~severity.ok THEN severity
             ELSE BucketLoopOverwrite(items, i + 1,
                    IF severity.v \notin DOMAIN errors_by_severity
                    THEN errors_by_severity @@ (severity.v :> <<error>>)
                    ELSE [errors_by_severity EXCEPT ![severity.v] = <<error>>])

\* the for loop of lines 47-51 over items[i..], with the buckets built so far
RECURSIVE BucketLoop(_, _, _)
BucketLoop(items, i, errors_by_severity) ==
    IF i > Len(items) THEN Ok(errors_by_severity)
    ELSE LET error == items[i]
             severity == PyGet(error, "severity", PyStr("unknown"))
         IN  IF ~severity.ok THEN severity
             ELSE BucketLoop(items, i + 1,
                    IF severity.v \notin DOMAIN errors_by_severity
                    THEN errors_by_severity @@ (severity.v :> <<error>>)
                    ELSE [errors_by_severity EXCEPT ![severity.v] = Append(@, error)])

\* lines 44-66: the try body once subprocess.run has returned
ParseAndBucket(out) ==
    IF Truthy(out.stdout)
    THEN LET errors == json_loads(out.stdout)
         IN  IF ~errors.ok THEN errors
             ELSE LET items == PyIter(errors.v)
                  IN  IF ~items.ok THEN items
                      ELSE LET buckets == BucketLoop(items.v, 1, <<>>)
                           IN  IF ~buckets.ok THEN buckets
                               ELSE Ok([success |-> TRUE,
                                        valid |-> PyLen(errors.v).v = 0,
                                        total_errors |-> PyLen(errors.v).v,
                                        errors |-> errors.v,
                                        errors_by_severity |-> buckets.v,
                                        summary |-> "Found errors: " \o ToString(PyLen(errors.v).v)])
    ELSE IF out.stderr # ""
         THEN Ok([success |-> FALSE, error |-> "Tiger process produced an error",
                  stderr |-> out.stderr])
         ELSE Ok([success |-> TRUE, valid |-> TRUE, total_errors |-> 0,
                  errors |-> PyList(<<>>), summary |-> "No errors found"])

\* lines 68-75: the except clauses
RunTigerExcept(exc) ==
    CASE exc.type = "TimeoutExpired" ->
           [success |-> FALSE, error |-> "Validation took too long (120 second timeout)"]
      [] exc.type = "JSONDecodeError" ->
           [success |-> FALSE, error |-> "JSON parsing error: " \o ExcStr(exc)]
      [] exc.type = "FileNotFoundError" ->
           [success |-> FALSE,
            error |-> "TIGER_PATH is incorrect or ck3-tiger.exe not found at: " \o TIGER_PATH]
      [] OTHER ->
           [success |-> FALSE, error |-> "Unexpected error: " \o ExcStr(exc)]

\* a handler's outcome: the dict it returns and the subprocess.run calls it made
_run_tiger_and_parse(mod_descriptor, extra_args, b) ==
    IF ~os_path_exists(mod_descriptor)
    THEN [result |-> [success |-> FALSE, error |-> "Mod file not found: " \o mod_descriptor],
          spawns |-> <<>>]
    ELSE LET command == <<TIGER_PATH, "--json", mod_descriptor>> \o extra_args
             run == subprocess_run(command, FullTimeout, b)
             body == IF run.ret.ok THEN ParseAndBucket(run.ret.v) ELSE run.ret
         IN  [result |-> IF body.ok THEN body.v ELSE RunTigerExcept(body.exc),
              spawns |-> <<run.proc>>]

\* lines 90-97
validate_mod(mod_name, show_vanilla_errors, show_other_mod_errors, b) ==
    _run_tiger_and_parse(ModDescriptor(mod_name),
        (IF show_vanilla_errors THEN <<"--show-vanilla">> ELSE <<>>)
        \o (IF show_other_mod_errors THEN <<"--show-mods">> ELSE <<>>),
        b)

\* lines 150-154
validate_with_custom_config(mod_name, config_path, b) ==
    IF ~os_path_exists(config_path)
    THEN [result |-> [success |-> FALSE,
                      error |-> "Configuration file not found: " \o config_path],
          spawns |-> <<>>]
    ELSE _run_tiger_and_parse(ModDescriptor(mod_name), <<"--config", config_path>>, b)

\* lines 109-137
consolidate_errors(mod_name, b) ==
    LET mod_descriptor == ModDescriptor(mod_name)
    IN  IF ~os_path_exists(mod_descriptor)
        THEN [result |-> [success |-> FALSE,
                          error |-> "Mod file not found: " \o mod_descriptor],
              spawns |-> <<>>]
        ELSE LET command == <<TIGER_PATH, mod_descriptor, "--consolidate">>
                 run == subprocess_run(command, ConsolidateTimeout, b)
             IN  [result |->
                    IF run.ret.ok
                    THEN IF run.ret.v.stderr # ""
                         THEN [success |-> FALSE, error |-> "Tiger process produced an error",
                               stderr |-> run.ret.v.stderr]
                         ELSE [success |-> TRUE, output |-> run.ret.v.stdout]
                    ELSE CASE run.ret.exc.type = "TimeoutExpired" ->
                                [success |-> FALSE,
                                 error |-> "Validation took too long (120 second timeout)"]
                           [] run.ret.exc.type = "FileNotFoundError" ->
                                [success |-> FALSE,
                                 error |-> "TIGER_PATH is incorrect or ck3-tiger.exe not found at: "
                                           \o TIGER_PATH]
                           [] OTHER ->
                                [success |-> FALSE,
                                 error |-> "Unexpected error: " \o ExcStr(run.ret.exc)],
                  spawns |-> <<run.proc>>]

(***************************************************************************)
(* validate_file                                                           *)
(***************************************************************************)
\* the inner loop looking at the first location only
LocationLoopFirstOnly(locations, j, file_path) ==
    IF j > Len(locations) THEN Ok(FALSE)
    ELSE LET path == PyGet(locations[j], "path", None)
         IN  IF ~path.ok THEN path ELSE Ok(path.v = PyStr(file_path))

\* the inner for loop of lines 179-182 over locations[j..]: TRUE when it
\* reaches a location whose path equals file_path (append and break)
RECURSIVE LocationLoop(_, _, _)
LocationLoop(locations, j, file_path) ==
    IF j > Len(locations) THEN Ok(FALSE)
    ELSE LET path == PyGet(locations[j], "path", None)
         IN  IF ~path.ok THEN path
             ELSE IF path.v = PyStr(file_path) THEN Ok(TRUE)
             ELSE LocationLoop(locations, j + 1, file_path)

\* the outer for loop of lines 178-182 over all_errors[i..]
RECURSIVE FileLoop(_, _, _, _)
FileLoop(all_errors, i, file_path, file_errors) ==
    IF i > Len(all_errors) THEN Ok(file_errors)
    ELSE LET error == all_errors[i]
             locations == PyGet(error, "locations", PyList(<<>>))
         IN  IF ~locations.ok THEN locations
             ELSE LET walk == PyIter(locations.v)
                  IN  IF ~walk.ok THEN walk
                      ELSE LET hit == LocationLoop(walk.v, 1, file_path)
                           IN  IF ~hit.ok THEN hit
                               ELSE FileLoop(all_errors, i + 1, file_path,
                                      IF hit.v THEN Append(file_errors, error)
                                      ELSE file_errors)

\* lines 174-190: the file-scoped view of a successful full result
FileScope(all_errors, file_path) ==
    LET walk == PyIter(all_errors)
    IN  IF ~walk.ok THEN walk ELSE FileLoop(walk.v, 1, file_path, <<>>)

\* lines 168-192
validate_file(file_path, mod_name, b) ==
    LET full == validate_mod(mod_name, FALSE, FALSE, b)
        full_result == full.result
    IN  IF ~full_result.success THEN full
        ELSE LET all_errors == IF "errors" \in DOMAIN full_result
                               THEN full_result.errors ELSE PyList(<<>>)
                 file_errors == FileScope(all_errors, file_path)
             IN  [result |->
                    IF file_errors.ok
                    THEN [success |-> TRUE,
                          file |-> file_path,
                          valid |-> Len(file_errors.v) = 0,
                          errors_count |-> Len(file_errors.v),
                          errors |-> PyList(file_errors.v)]
                    ELSE [success |-> FALSE,
                          error |-> "Error during file validation: "
                                    \o ExcStr(file_errors.exc)],
                  spawns |-> full.spawns]

(***************************************************************************)
(* check_syntax_only                                                       *)
(***************************************************************************)
\* the key list with one class forgotten
SyntaxKeysWithoutStructure == <<PyStr("syntax"), PyStr("encoding")>>

SyntaxKeys == <<PyStr("syntax"), PyStr("structure"), PyStr("encoding")>>

\* the list comprehension of line 220 over all_errors[i..]
RECURSIVE SyntaxLoop(_, _, _)
SyntaxLoop(all_errors, i, syntax_errors) ==
    IF i > Len(all_errors) THEN Ok(syntax_errors)
    ELSE LET e == all_errors[i]
             key == PyGet(e, "key", None)
         IN  IF ~key.ok THEN key
             ELSE SyntaxLoop(all_errors, i + 1,
                    IF \E k \in 1..Len(SyntaxKeys) : SyntaxKeys[k] = key.v
                    THEN Append(syntax_errors, e)
                    ELSE syntax_errors)

\* lines 218-233: the try body once subprocess.run has returned
SyntaxBody(out) ==
    IF Truthy(out.stdout)
    THEN LET all_errors == json_loads(out.stdout)
         IN  IF ~all_errors.ok THEN all_errors
             ELSE LET walk == PyIter(all_errors.v)
                  IN  IF ~walk.ok THEN walk
                      ELSE LET syntax_errors == SyntaxLoop(walk.v, 1, <<>>)
                           IN  IF ~syntax_errors.ok THEN syntax_errors
                               ELSE Ok([success |-> TRUE,
                                        valid |-> Len(syntax_errors.v) = 0,
                                        syntax_errors_count |-> Len(syntax_errors.v),
                                        errors |-> PyList(syntax_errors.v)])
    ELSE Ok([success |-> TRUE, valid |-> TRUE, syntax_errors_count |-> 0,
             errors |-> PyList(<<>>)])

\* lines 204-235
check_syntax_only(mod_name, b) ==
    LET mod_descriptor == ModDescriptor(mod_name)
    IN  IF ~os_path_exists(mod_descriptor)
        THEN [result |-> [success |-> FALSE,
                          error |-> "Mod file not found: " \o mod_descriptor],
              spawns |-> <<>>]
        ELSE LET run == subprocess_run(<<TIGER_PATH, "--json", mod_descriptor>>,
                                       SyntaxTimeout, b)
                 body == IF run.ret.ok THEN SyntaxBody(run.ret.v) ELSE run.ret
             IN  [result |-> IF body.ok THEN body.v
                             ELSE [success |-> FALSE, error |-> ExcStr(body.exc)],
                  spawns |-> <<run.proc>>]

(***************************************************************************)
(* The inputs the tools are called with and what the validator may do.     *)
(***************************************************************************)
ModNames == {"m1", "m2"}
ConfigPaths == {"conf/ok.conf", "conf/missing.conf"}
FilePaths == {"a.txt", "b.txt"}

Loc(path) == PyDict([path |-> PyStr(path), line |-> PyInt(1)])
LocNoPath == PyDict([line |-> PyInt(1)])

\* a diagnostic object holding the fields named in present
Diag(severity, key, locations, present) ==
    LET all == [severity |-> PyStr(severity), key |-> PyStr(key), locations |-> locations]
    IN  PyDict([f \in present |-> all[f]])

AllFields == {"severity", "key", "locations"}

Diagnostics ==
    \* severities, one of them absent
    { Diag(s, "logic", PyList(<<Loc("a.txt")>>), AllFields) : s \in {"error", "warning"} }
    \cup { Diag("", "logic", PyList(<<Loc("a.txt")>>), AllFields \ {"severity"}) }
    \* keys, one of them absent
    \cup { Diag("error", k, PyList(<<Loc("a.txt")>>), AllFields)
           : k \in {"syntax", "structure", "encoding"} }
    \cup { Diag("error", "", PyList(<<Loc("a.txt")>>), AllFields \ {"key"}) }
    \* locations: absent, null, empty, another spelling of the path, two matches,
    \* one without a path, the match last
    \cup { Diag("warning", "logic", None, AllFields \ {"locations"}) }
    \cup { Diag("warning", "logic", l, AllFields)
           : l \in { None,
                     PyList(<<>>),
                     PyList(<<Loc("./a.txt")>>),
                     PyList(<<Loc("a.txt"), Loc("a.txt")>>),
                     PyList(<<LocNoPath, Loc("b.txt")>>),
                     PyList(<<Loc("b.txt"), Loc("a.txt")>>) } }

RECURSIVE SeqsUpTo(_, _)
SeqsUpTo(S, n) ==
    IF n = 0 THEN {<<>>}
    ELSE LET shorter == SeqsUpTo(S, n - 1)
         IN  shorter \cup { Append(q, x) : q \in shorter, x \in S }

\* JSON documents that are not an array of objects
OtherDocs ==
    { PyDict(<<>>), PyDict([a |-> PyInt(1)]), PyInt(5), PyStr(""), PyStr("abc"), None,
      PyList(<<PyInt(5)>>) }

Stdouts ==
    { NoOutput, Garbage("not json") }
    \cup { JsonText(d) : d \in OtherDocs }
    \cup { JsonText(PyList(q)) : q \in SeqsUpTo(Diagnostics, MaxDiags) }

Stderrs == {"", "tiger: cannot read descriptor"}

Runtimes == {SyntaxTimeout, FullTimeout, FullTimeout + 1}

Behaviours ==
    { [launch |-> l, runtime |-> 0, exits_first |-> TRUE, stdout |-> NoOutput, stderr |-> ""]
      : l \in {"FileNotFoundError", "PermissionError"} }
    \cup [launch : {"ok"}, runtime : Runtimes, exits_first : BOOLEAN,
          stdout : Stdouts, stderr : Stderrs]

(***************************************************************************)
(* The server: one tool call at a time, each answered by its handler.      *)
(***************************************************************************)
NoCall == [tool |-> "none"]
NoResult == <<>>

Init ==
    /\ files = {ModDescriptor("m1"), "conf/ok.conf"}
    /\ pc = "idle"
    /\ call = NoCall
    /\ spawns = <<>>
    /\ result = NoResult

Return(c, r) ==
    /\ pc' = "returned"
    /\ call' = c
    /\ spawns' = r.spawns
    /\ result' = r.result
    /\ UNCHANGED files

ValidateMod ==
    /\ pc = "idle"
    /\ \E mod_name \in ModNames, show_vanilla_errors \in BOOLEAN,
          show_other_mod_errors \in BOOLEAN, b \in Behaviours :
          Return([tool |-> "validate_mod", mod_name |-> mod_name,
                  show_vanilla_errors |-> show_vanilla_errors,
                  show_other_mod_errors |-> show_other_mod_errors],
                 validate_mod(mod_name, show_vanilla_errors, show_other_mod_errors, b))

ConsolidateErrors ==
    /\ pc = "idle"
    /\ \E mod_name \in ModNames, b \in Behaviours :
          Return([tool |-> "consolidate_errors", mod_name |-> mod_name],
                 consolidate_errors(mod_name, b))

ValidateWithCustomConfig ==
    /\ pc = "idle"
    /\ \E mod_name \in ModNames, config_path \in ConfigPaths, b \in Behaviours :
          Return([tool |-> "validate_with_custom_config", mod_name |-> mod_name,
                  config_path |-> config_path],
                 validate_with_custom_config(mod_name, config_path, b))

ValidateFile ==
    /\ pc = "idle"
    /\ \E file_path \in FilePaths, mod_name \in ModNames, b \in Behaviours :
          Return([tool |-> "validate_file", file_path |-> file_path,
                  mod_name |-> mod_name],
                 validate_file(file_path, mod_name, b))

CheckSyntaxOnly ==
    /\ pc = "idle"
    /\ \E mod_name \in ModNames, b \in Behaviours :
          Return([tool |-> "check_syntax_only", mod_name |-> mod_name],
                 check_syntax_only(mod_name, b))

\* the result goes back to the caller; nothing is kept across calls
Respond ==
    /\ pc = "returned"
    /\ pc' = "idle"
    /\ call' = NoCall
    /\ spawns' = <<>>
    /\ result' = NoResult
    /\ UNCHANGED files

Next ==
    \/ ValidateMod
    \/ ConsolidateErrors
    \/ ValidateWithCustomConfig
    \/ ValidateFile
    \/ CheckSyntaxOnly
    \/ Respond

Spec == Init /\ [][Next]_vars

(***************************************************************************)
(* What the properties speak about.                                        *)
(***************************************************************************)
Returned == pc = "returned"

\* the tools that run the validator with --json
JsonTools == {"validate_mod", "validate_with_custom_config", "validate_file",
              "check_syntax_only"}

\* the call ran the validator and the child exited within the budget
Exited == Returned /\ Len(spawns) = 1 /\ spawns[1].child = "exited"

\* what subprocess.run captured from the exited child
CapturedOut == spawns[1].ret.v.stdout
CapturedErr == spawns[1].ret.v.stderr

\* stdout is the JSON text of an array of objects
IsDiagnosticArray(text) ==
    /\ text.kind = "json"
    /\ text.doc.py = "list"
    /\ \A i \in 1..Len(text.doc.v) : text.doc.v[i].py = "dict"

HasPrefix(s, prefix) ==
    Len(s) >= Len(prefix) /\ SubSeq(s, 1, Len(prefix)) = prefix

\* the budget the specification states for each tool
StatedBudget(tool) == IF tool = "check_syntax_only" THEN 60 ELSE 120

\* what the full validation returns on the subprocess outcome of this call
UnderlyingFull ==
    IF spawns = <<>>
    THEN [success |-> FALSE, error |-> "Mod file not found: " \o ModDescriptor(call.mod_name)]
    ELSE LET body == IF spawns[1].ret.ok THEN ParseAndBucket(spawns[1].ret.v)
                     ELSE spawns[1].ret
         IN  IF body.ok THEN body.v ELSE RunTigerExcept(body.exc)

\* C1: every tool call naming a mod whose descriptor does not exist returns a
\* not-found failure (for the custom-config tool possibly the one of its config
\* file, which is checked first) and runs no subprocess.
C1_MissingDescriptor ==
    (Returned /\ ModDescriptor(call.mod_name) \notin files) =>
        /\ spawns = <<>>
        /\ DOMAIN result = {"success", "error"}
        /\ result.success = FALSE
        /\ result.error =
             IF call.tool = "validate_with_custom_config" /\ call.config_path \notin files
             THEN "Configuration file not found: " \o call.config_path
             ELSE "Mod file not found: " \o ModDescriptor(call.mod_name)

C1_Witness ==
    /\ Returned
    /\ call.tool = "check_syntax_only"
    /\ ModDescriptor(call.mod_name) \notin files
    /\ spawns = <<>>
    /\ result.success = FALSE

\* C2: a JSON-mode call whose child exits with empty stdout and non-empty stderr
\* returns a failure carrying that stderr text, never a success.
C2_StderrIsToolError ==
    (Exited /\ call.tool \in JsonTools /\ ~Truthy(CapturedOut) /\ CapturedErr # "") =>
        /\ result.success = FALSE
        /\ "stderr" \in DOMAIN result
        /\ result.stderr = CapturedErr

\* C3: every subprocess runs under the stated budget (60 s for the syntax check,
\* 120 s otherwise); a child still running after it is killed, and a call whose
\* child was killed returns a failure whose message names the timeout.
C3_TimeoutFails ==
    Returned =>
        \A i \in 1..Len(spawns) :
            LET p == spawns[i]
            IN  /\ p.timeout = StatedBudget(call.tool)
                /\ (p.child # "not_started" /\ p.runtime > StatedBudget(call.tool))
                       => p.child = "killed"
                /\ p.child = "killed" =>
                       /\ result.success = FALSE
                       /\ DOMAIN result = {"success", "error"}
                       /\ result.error =
                            IF call.tool = "check_syntax_only"
                            THEN "Command '[" \o ReprArgs(p.command)
                                 \o "]' timed out after 60 seconds"
                            ELSE "Validation took too long (120 second timeout)"

C3_Witness ==
    /\ Returned
    /\ call.tool = "check_syntax_only"
    /\ Len(spawns) = 1
    /\ spawns[1].child = "killed"
    /\ spawns[1].runtime = FullTimeout
    /\ result.success = FALSE

\* C4: a JSON-mode call whose child prints non-empty stdout that is not a JSON
\* array of objects returns a failure carrying the decode error text, never a
\* success.
C4_MalformedOutputFails ==
    (Exited /\ call.tool \in JsonTools /\ Truthy(CapturedOut)
            /\ ~IsDiagnosticArray(CapturedOut)) =>
        /\ result.success = FALSE
        /\ call.tool # "check_syntax_only" => HasPrefix(result.error, "JSON parsing error: ")

\* C5: every successful result of validate_mod and validate_with_custom_config
\* holds errors_by_severity, total_errors, valid and errors, with valid iff
\* total_errors is zero and total_errors the length of errors.
C5_UniformShape ==
    (Returned /\ call.tool \in {"validate_mod", "validate_with_custom_config"}
              /\ result.success) =>
        /\ {"errors_by_severity", "total_errors", "valid", "errors"} \subseteq DOMAIN result
        /\ result.valid = (result.total_errors = 0)
        /\ result.total_errors = PyLen(result.errors).v

\* the bucket a diagnostic belongs to
SeverityLabel(d) == IF "severity" \in DOMAIN d.v THEN d.v.severity ELSE PyStr("unknown")

Occurrences(q, d) == Cardinality({i \in DOMAIN q : q[i] = d})

RECURSIVE OccurrencesInBuckets(_, _, _)
OccurrencesInBuckets(buckets, labels, d) ==
    IF labels = {} THEN 0
    ELSE LET l == CHOOSE l \in labels : TRUE
         IN  Occurrences(buckets[l], d) + OccurrencesInBuckets(buckets, labels \ {l}, d)

\* C6: for every array of diagnostics the validator prints, validate_mod (and the
\* custom-config run) succeeds with buckets that partition it: each bucket is the
\* sub-sequence, in order, of the diagnostics with that severity ("unknown" when
\* absent), every diagnostic's bucket exists, and the buckets together hold each
\* diagnostic as often as the array does.
C6_BucketsPartition ==
    (Exited /\ call.tool \in {"validate_mod", "validate_with_custom_config"}
            /\ IsDiagnosticArray(CapturedOut)) =>
        LET errors == CapturedOut.doc.v
            buckets == result.errors_by_severity
        IN  /\ result.success
            /\ result.errors = PyList(errors)
            /\ DOMAIN buckets = {SeverityLabel(errors[i]) : i \in 1..Len(errors)}
            /\ \A l \in DOMAIN buckets :
                   buckets[l] = SelectSeq(errors, LAMBDA d : SeverityLabel(d) = l)
            /\ \A i \in 1..Len(errors) :
                   OccurrencesInBuckets(buckets, DOMAIN buckets, errors[i])
                       = Occurrences(errors, errors[i])

C6_Witness ==
    /\ Exited
    /\ call.tool = "validate_mod"
    /\ IsDiagnosticArray(CapturedOut)
    /\ Len(CapturedOut.doc.v) = 2
    /\ CapturedOut.doc.v[1] # CapturedOut.doc.v[2]
    /\ "severity" \notin DOMAIN CapturedOut.doc.v[1].v
    /\ SeverityLabel(CapturedOut.doc.v[2]) = PyStr("warning")
    /\ Len(result.errors_by_severity[PyStr("unknown")]) = 1

\* two different diagnostics of one severity, kept in their order
C6_OrderWitness ==
    /\ Exited
    /\ call.tool = "validate_mod"
    /\ IsDiagnosticArray(CapturedOut)
    /\ Len(CapturedOut.doc.v) = 2
    /\ CapturedOut.doc.v[1] # CapturedOut.doc.v[2]
    /\ DOMAIN result.errors_by_severity = {PyStr("error")}
    /\ result.errors_by_severity[PyStr("error")] = CapturedOut.doc.v

\* C7: validate_file returns the full validation's failure unchanged when that
\* fails, and succeeds whenever the full validation succeeds.
C7_SameFailureModes ==
    (Returned /\ call.tool = "validate_file") =>
        IF UnderlyingFull.success THEN result.success ELSE result = UnderlyingFull

\* a diagnostic with at least one location whose path is the given string
HasLocationAt(d, file_path) ==
    /\ "locations" \in DOMAIN d.v
    /\ d.v.locations.py = "list"
    /\ \E j \in 1..Len(d.v.locations.v) :
          LET location == d.v.locations.v[j]
          IN  /\ location.py = "dict"
              /\ "path" \in DOMAIN location.v
              /\ location.v.path = PyStr(file_path)

\* C8: a successful validate_file returns exactly the diagnostics of the full
\* result that have a location at the given path, each once, whole and in order;
\* filtering its list again by the same path changes nothing.
C8_FileScopeExact ==
    (Returned /\ call.tool = "validate_file" /\ result.success) =>
        LET all_errors == PyIter(UnderlyingFull.errors).v
            expected == SelectSeq(all_errors, LAMBDA d : HasLocationAt(d, call.file_path))
        IN  /\ result.errors = PyList(expected)
            /\ result.errors_count = Len(expected)
            /\ result.valid = (expected = <<>>)
            /\ result.file = call.file_path
            /\ FileScope(result.errors, call.file_path) = Ok(expected)

C8_Witness ==
    /\ Exited
    /\ call.tool = "validate_file"
    /\ call.file_path = "a.txt"
    /\ result.success
    /\ IsDiagnosticArray(CapturedOut)
    /\ Len(CapturedOut.doc.v) = 2
    /\ result.errors_count = 1
    /\ \E j \in 1..2 :
          /\ result.errors.v[1] = CapturedOut.doc.v[j]
          /\ Len(result.errors.v[1].v.locations.v) = 2
          /\ \A k \in 1..2 : result.errors.v[1].v.locations.v[k] = Loc("a.txt")

\* C9: consolidate_errors, once the child has exited, fails with the stderr text
\* only when stdout is empty and stderr is not, and otherwise succeeds with the
\* stdout text as its output.
C9_ConsolidateStderrRule ==
    (Exited /\ call.tool = "consolidate_errors") =>
        IF ~Truthy(CapturedOut) /\ CapturedErr # ""
        THEN /\ result.success = FALSE
             /\ result.stderr = CapturedErr
        ELSE /\ result.success
             /\ result.output = CapturedOut

\* a diagnostic of a syntax class
IsSyntaxClass(d) ==
    /\ "key" \in DOMAIN d.v
    /\ d.v.key \in {PyStr("syntax"), PyStr("structure"), PyStr("encoding")}

\* C10: for every array of diagnostics the validator prints, check_syntax_only
\* returns exactly those whose key is syntax, structure or encoding, in order (one
\* without a key is left out), with their number and valid iff there are none.
C10_SyntaxScopeExact ==
    (Exited /\ call.tool = "check_syntax_only" /\ IsDiagnosticArray(CapturedOut)) =>
        LET expected == SelectSeq(CapturedOut.doc.v, IsSyntaxClass)
        IN  /\ result.success
            /\ result.errors = PyList(expected)
            /\ result.syntax_errors_count = Len(expected)
            /\ result.valid = (expected = <<>>)

C10_Witness ==
    /\ Exited
    /\ call.tool = "check_syntax_only"
    /\ IsDiagnosticArray(CapturedOut)
    /\ Len(CapturedOut.doc.v) = 2
    /\ "key" \notin DOMAIN CapturedOut.doc.v[1].v
    /\ "key" \in DOMAIN CapturedOut.doc.v[2].v
    /\ CapturedOut.doc.v[2].v.key = PyStr("structure")
    /\ result.syntax_errors_count = 1
    /\ result.errors.v = <<CapturedOut.doc.v[2]>>

====
